---- MODULE Spec2Model ----
(***************************************************************************)
(* Model of the NeuralPulse pose game: the App component's session state   *)
(* (phase, score, lives, round clock, last result), its handlers and       *)
(* effects, and the offline pose matcher evaluatePoseOffline.              *)
(*                                                                         *)
(* Coordinates are normalised to [0,1] in the program; the model keeps     *)
(* them in hundredths (0..100), so 0.15 is 15 and a squared distance of    *)
(* 0.2^2 is 400.                                                           *)
(*                                                                         *)
(* An optional value (null | v) is a sequence of length 0 or 1.            *)
(***************************************************************************)
EXTENDS Integers, Sequences, FiniteSets, TLC

(***************************************************************************)
(* Constants of the program.                                               *)
(***************************************************************************)
\* constants.ts: the configured round duration in ms.
GAME_DURATION == 8000

\* The interval period and the amount one tick takes off timeLeft.
TICK == 100

\* useState(3) / setLives(3).
START_LIVES == 3

\* constants.ts: the ids of the pose catalog.
POSES ==
  {"t-pose", "victory-v", "hands-on-hips", "hands-on-head", "right-arm-up", "arms-crossed"}

\* enum GameState
START == "START"
PLAYING == "PLAYING"
JUDGING == "JUDGING"
RESULT == "RESULT"
GAMEOVER == "GAMEOVER"

GameState == {START, PLAYING, JUDGING, RESULT, GAMEOVER}

(***************************************************************************)
(* Bounds of the model.                                                    *)
(***************************************************************************)
\* Rounds started (by start, restart or continue) in one behaviour.
MaxRounds == 4

\* Calls of handleJudging besides the clock's, in one behaviour.
MaxForced == 2

(***************************************************************************)
(* Landmark samples.  A landmark list is a function from the indices it    *)
(* holds to points [x, y]; the empty list has the empty domain.            *)
(***************************************************************************)
NOSE == 0
L_SHOULDER == 11
R_SHOULDER == 12
L_ELBOW == 13
R_ELBOW == 14
L_WRIST == 15
R_WRIST == 16
L_HIP == 23
R_HIP == 24

Required == {NOSE, L_SHOULDER, R_SHOULDER, L_ELBOW, R_ELBOW, L_WRIST, R_WRIST, L_HIP, R_HIP}

Pt(px, py) == [x |-> px, y |-> py]

\* Arms held out level: wrists at shoulder height, 0.8 apart.
TPoseSample ==
  [i \in Required |->
     CASE i = NOSE -> Pt(50, 20)
       [] i = L_SHOULDER -> Pt(35, 52)
       [] i = R_SHOULDER -> Pt(65, 51)
       [] i = L_ELBOW -> Pt(22, 51)
       [] i = R_ELBOW -> Pt(78, 50)
       [] i = L_WRIST -> Pt(10, 50)
       [] i = R_WRIST -> Pt(90, 49)
       [] i = L_HIP -> Pt(40, 90)
       [] i = R_HIP -> Pt(60, 90)]

\* Both hands raised high and apart.
VictorySample ==
  [i \in Required |->
     CASE i = NOSE -> Pt(50, 20)
       [] i = L_SHOULDER -> Pt(35, 50)
       [] i = R_SHOULDER -> Pt(65, 50)
       [] i = L_ELBOW -> Pt(28, 30)
       [] i = R_ELBOW -> Pt(72, 30)
       [] i = L_WRIST -> Pt(20, 10)
       [] i = R_WRIST -> Pt(80, 10)
       [] i = L_HIP -> Pt(40, 90)
       [] i = R_HIP -> Pt(60, 90)]

\* A list that stops before the wrists: indices 0..14 only.
PartialSample == [i \in {NOSE, L_SHOULDER, R_SHOULDER, L_ELBOW, R_ELBOW} |-> TPoseSample[i]]

EmptyList == [i \in {} |-> Pt(0, 0)]

\* The results objects the tracker hands to onResults: poseLandmarks is
\* undefined (<<>>) or a landmark list (<<list>>).
Results ==
  {[poseLandmarks |-> l] :
     l \in {<<>>, <<EmptyList>>, <<PartialSample>>, <<TPoseSample>>, <<VictorySample>>}}

Abs(n) == IF n < 0 THEN -n ELSE n

Sq(n) == n * n

(***************************************************************************)
(* evaluatePoseOffline (poseService.ts).                                   *)
(***************************************************************************)
\* !landmarks || landmarks.length === 0
\* Variant: only a missing list counts as no body; an empty one is evaluated.
NoBody_NullOnly(landmarks) == landmarks = <<>>

NoBody(landmarks) == landmarks = <<>> \/ DOMAIN landmarks[1] = {}

\* The landmark indices whose fields the switch reads for this pose, in
\* evaluation order and with && short-circuiting.  lm is a landmark list.
Reads(lm, id) ==
  LET has(S) == S \subseteq DOMAIN lm
  IN  CASE id \in {"t-pose", "victory-v", "right-arm-up"} ->
             {L_WRIST, L_SHOULDER, R_WRIST, R_SHOULDER}
        [] id = "hands-on-hips" ->
             {L_WRIST, L_HIP, R_WRIST, R_HIP, L_ELBOW, L_SHOULDER}
               \cup (IF has({L_WRIST, L_HIP, R_WRIST, R_HIP, L_ELBOW, L_SHOULDER})
                        /\ lm[L_ELBOW].x < lm[L_SHOULDER].x - 5
                     THEN {R_ELBOW, R_SHOULDER} ELSE {})
        [] id = "hands-on-head" ->
             {L_WRIST, NOSE, R_WRIST}
               \cup (IF has({L_WRIST, NOSE, R_WRIST})
                        /\ Sq(lm[L_WRIST].x - lm[NOSE].x) + Sq(lm[L_WRIST].y - lm[NOSE].y) < 625
                        /\ Sq(lm[R_WRIST].x - lm[NOSE].x) + Sq(lm[R_WRIST].y - lm[NOSE].y) < 625
                     THEN {L_SHOULDER} ELSE {})
        [] id = "arms-crossed" ->
             {L_WRIST, R_WRIST}
               \cup (IF has({L_WRIST, R_WRIST}) /\ lm[L_WRIST].x > lm[R_WRIST].x
                     THEN {L_SHOULDER} ELSE {})
        [] OTHER -> {}

\* Reading .x or .y of a missing landmark (undefined) raises a TypeError.
Throws(landmarks, id) ==
  /\ ~NoBody(landmarks)
  /\ ~(Reads(landmarks[1], id) \subseteq DOMAIN landmarks[1])

\* Variant: every comparison of the switch includes its boundary.
IsMatch_Inclusive(lm, id) ==
  LET lw == lm[L_WRIST]
      rw == lm[R_WRIST]
      ls == lm[L_SHOULDER]
      rs == lm[R_SHOULDER]
  IN  CASE id = "t-pose" ->
             /\ Abs(lw.y - ls.y) <= 15
             /\ Abs(rw.y - rs.y) <= 15
             /\ Abs(lw.x - rw.x) >= 40
        [] id = "victory-v" ->
             /\ lw.y <= ls.y - 20
             /\ rw.y <= rs.y - 20
             /\ Abs(lw.x - rw.x) >= 30
        [] id = "hands-on-hips" ->
             /\ Sq(lw.x - lm[L_HIP].x) + Sq(lw.y - lm[L_HIP].y) <= 400
             /\ Sq(rw.x - lm[R_HIP].x) + Sq(rw.y - lm[R_HIP].y) <= 400
        [] id = "hands-on-head" ->
             /\ Sq(lw.x - lm[NOSE].x) + Sq(lw.y - lm[NOSE].y) <= 625
             /\ Sq(rw.x - lm[NOSE].x) + Sq(rw.y - lm[NOSE].y) <= 625
             /\ lw.y <= ls.y
        [] id = "right-arm-up" ->
             /\ rw.y <= rs.y - 30
             /\ lw.y >= ls.y
        [] id = "arms-crossed" ->
             /\ lw.x >= rw.x
             /\ Abs(lw.y - ls.y) <= 30
        [] OTHER -> FALSE

\* isMatch of each case of the switch.
IsMatch(lm, id) ==
  LET lw == lm[L_WRIST]
      rw == lm[R_WRIST]
      ls == lm[L_SHOULDER]
      rs == lm[R_SHOULDER]
  IN  CASE id = "t-pose" ->
             /\ Abs(lw.y - ls.y) < 15
             /\ Abs(rw.y - rs.y) < 15
             /\ Abs(lw.x - rw.x) > 40
        [] id = "victory-v" ->
             /\ lw.y < ls.y - 20
             /\ rw.y < rs.y - 20
             /\ Abs(lw.x - rw.x) > 30
        [] id = "hands-on-hips" ->
             /\ Sq(lw.x - lm[L_HIP].x) + Sq(lw.y - lm[L_HIP].y) < 400
             /\ Sq(rw.x - lm[R_HIP].x) + Sq(rw.y - lm[R_HIP].y) < 400
        [] id = "hands-on-head" ->
             /\ Sq(lw.x - lm[NOSE].x) + Sq(lw.y - lm[NOSE].y) < 625
             /\ Sq(rw.x - lm[NOSE].x) + Sq(rw.y - lm[NOSE].y) < 625
             /\ lw.y < ls.y
        [] id = "right-arm-up" ->
             /\ rw.y < rs.y - 30
             /\ lw.y > ls.y
        [] id = "arms-crossed" ->
             /\ lw.x > rw.x
             /\ Abs(lw.y - ls.y) < 30
        [] OTHER -> FALSE

\* score = isMatch ? hi : lo, per case; 0 when no case is taken.
CaseScore(id, isMatch) ==
  CASE id = "t-pose" -> IF isMatch THEN 95 ELSE 20
    [] id = "victory-v" -> IF isMatch THEN 90 ELSE 15
    [] id = "hands-on-hips" -> IF isMatch THEN 85 ELSE 30
    [] id = "hands-on-head" -> IF isMatch THEN 88 ELSE 10
    [] id = "right-arm-up" -> IF isMatch THEN 92 ELSE 25
    [] id = "arms-crossed" -> IF isMatch THEN 80 ELSE 20
    [] OTHER -> 0

\* Variant: no default feedback when no case of the switch is taken.
CaseFeedback_NoDefault(id, isMatch) ==
  CASE id = "t-pose" ->
         IF isMatch THEN "Perfect T-Shape!" ELSE "Extend your arms fully to the sides."
    [] id = "victory-v" ->
         IF isMatch THEN "Victory attained!" ELSE "Raise your hands high in a V!"
    [] id = "hands-on-hips" ->
         IF isMatch THEN "Looking heroic!" ELSE "Put your hands on your hips."
    [] id = "hands-on-head" ->
         IF isMatch THEN "Mind status: Blown!" ELSE "Hands on your head!"
    [] id = "right-arm-up" ->
         IF isMatch THEN "Reaching the stars!" ELSE "Raise only your right hand."
    [] id = "arms-crossed" ->
         IF isMatch THEN "Power pose active!" ELSE "Cross your arms over your chest."
    [] OTHER -> ""

CaseFeedback(id, isMatch) ==
  CASE id = "t-pose" ->
         IF isMatch THEN "Perfect T-Shape!" ELSE "Extend your arms fully to the sides."
    [] id = "victory-v" ->
         IF isMatch THEN "Victory attained!" ELSE "Raise your hands high in a V!"
    [] id = "hands-on-hips" ->
         IF isMatch THEN "Looking heroic!" ELSE "Put your hands on your hips."
    [] id = "hands-on-head" ->
         IF isMatch THEN "Mind status: Blown!" ELSE "Hands on your head!"
    [] id = "right-arm-up" ->
         IF isMatch THEN "Reaching the stars!" ELSE "Raise only your right hand."
    [] id = "arms-crossed" ->
         IF isMatch THEN "Power pose active!" ELSE "Cross your arms over your chest."
    [] OTHER -> "Try harder!"

\* Variant: the case's score is returned as computed, matched or not.
evaluatePoseOffline_RawScore(landmarks, id) ==
  IF NoBody(landmarks)
  THEN [matched |-> FALSE, score |-> 0, feedback |-> "No body detected. Stand back!"]
  ELSE LET isMatch == IsMatch(landmarks[1], id)
       IN  [matched |-> isMatch,
            score |-> CaseScore(id, isMatch),
            feedback |-> CaseFeedback(id, isMatch)]

\* The MatchResult returned when the call does not throw.
evaluatePoseOffline(landmarks, id) ==
  IF NoBody(landmarks)
  THEN [matched |-> FALSE, score |-> 0, feedback |-> "No body detected. Stand back!"]
  ELSE LET isMatch == IsMatch(landmarks[1], id)
       IN  [matched |-> isMatch,
            score |-> IF isMatch THEN CaseScore(id, isMatch) ELSE 0,
            feedback |-> CaseFeedback(id, isMatch)]

(***************************************************************************)
(* State of the App component.                                             *)
(***************************************************************************)
VARIABLES
  gameState,        \* useState<GameState>
  currentPose,      \* useState<Pose | null>: <<>> or <<id>>
  score,            \* useState(0)
  timeLeft,         \* useState(GAME_DURATION)
  lastResult,       \* useState<MatchResult | null>: <<>> or <<result>>
  lives,            \* useState(3)
  isCameraReady,    \* useState(false)
  lastPoseResults,  \* useRef<any>(null): <<>> or <<results>>
  timerRef,         \* the running interval: <<>> or <<closure>>
  timeouts,         \* the pending setTimeout callbacks of handleJudging, oldest first
  seen,             \* the dependency values the effects last ran with
  rounds,           \* rounds started so far
  expiries,         \* expiries the clock raised in the current round
  judgeCalls,       \* calls of handleJudging in the current round
  applied,          \* outcomes applied to score/lives in the current round
  missStreak,       \* non-matching rounds in a row since the game started
  forced,           \* calls of a handler made by no button and no timer so far
  fault,            \* an exception has left evaluatePoseOffline or evaluatePose uncaught
  response          \* what the vision model's generateContent call gives evaluatePose

vars ==
  <<gameState, currentPose, score, timeLeft, lastResult, lives, isCameraReady,
    lastPoseResults, timerRef, timeouts, seen, rounds, expiries, judgeCalls, applied,
    missStreak, forced, fault, response>>

session == <<gameState, currentPose, score, timeLeft, lastResult, lives>>

history == <<rounds, expiries, judgeCalls, applied, missStreak, forced>>

\* What the game's buttons, clock and effects never touch.
services == <<fault, response>>

\* The values the two effects depend on, as of the committed render.
Deps == [gameState |-> gameState, currentPose |-> currentPose, lives |-> lives]

Init ==
  /\ gameState = START
  /\ currentPose = <<>>
  /\ score = 0
  /\ timeLeft = GAME_DURATION
  /\ lastResult = <<>>
  /\ lives = START_LIVES
  /\ isCameraReady = FALSE
  /\ lastPoseResults = <<>>
  /\ timerRef = <<>>
  /\ timeouts = <<>>
  /\ seen = [gameState |-> START, currentPose |-> <<>>, lives |-> START_LIVES]
  /\ rounds = 0
  /\ expiries = 0
  /\ judgeCalls = 0
  /\ applied = 0
  /\ missStreak = 0
  /\ forced = 0
  /\ fault = FALSE
  /\ response = [rejects |-> FALSE, text |-> <<>>]

(***************************************************************************)
(* Effects.  React runs the effects of a committed render before it        *)
(* handles the next event or update, so while an effect is due nothing     *)
(* else runs.                                                              *)
(***************************************************************************)
ClockDepsChanged == seen.gameState # gameState \/ seen.currentPose # currentPose

GuardDepsChanged == seen.lives # lives \/ seen.gameState # gameState

EffectsPending == ClockDepsChanged \/ GuardDepsChanged

\* useEffect(..., [gameState, currentPose]): the cleanup clears the interval,
\* the body starts one while PLAYING.  The interval's callback closes over
\* the render's handleJudging, and so over its currentPose.
ClockEffect ==
  timerRef' =
    IF ClockDepsChanged
    THEN IF gameState = PLAYING THEN <<[pose |-> currentPose]>> ELSE <<>>
    ELSE timerRef

\* Mutant of LivesGuardEffect: the guard tests lives < 0.
LivesGuardEffect_Strict ==
  gameState' =
    IF GuardDepsChanged /\ lives < 0 /\ gameState # GAMEOVER /\ gameState # START
    THEN GAMEOVER
    ELSE gameState

\* Mutant of LivesGuardEffect: the guard never fires.
LivesGuardEffect_Off == gameState' = gameState

\* Mutant of LivesGuardEffect: the guard fires in PLAYING only.
LivesGuardEffect_PlayingOnly ==
  gameState' =
    IF GuardDepsChanged /\ lives <= 0 /\ gameState = PLAYING
    THEN GAMEOVER
    ELSE gameState

\* Mutant of LivesGuardEffect: the guard tests lives <= 1.
LivesGuardEffect_Early ==
  gameState' =
    IF GuardDepsChanged /\ lives <= 1 /\ gameState # GAMEOVER /\ gameState # START
    THEN GAMEOVER
    ELSE gameState

\* useEffect(..., [lives, gameState]): the lives guard.
LivesGuardEffect ==
  gameState' =
    IF GuardDepsChanged /\ lives <= 0 /\ gameState # GAMEOVER /\ gameState # START
    THEN GAMEOVER
    ELSE gameState

FlushEffects ==
  /\ EffectsPending
  /\ ClockEffect
  /\ LivesGuardEffect
  /\ seen' = Deps
  /\ UNCHANGED <<currentPose, score, timeLeft, lastResult, lives, isCameraReady,
                 lastPoseResults, timeouts, history>>
  /\ UNCHANGED services

(***************************************************************************)
(* Camera and tracker.                                                     *)
(***************************************************************************)
\* videoRef.current.onloadedmetadata
OnLoadedMetadata ==
  /\ ~isCameraReady
  /\ ~EffectsPending
  /\ isCameraReady' = TRUE
  /\ UNCHANGED <<session, lastPoseResults, timerRef, timeouts, seen, history>>
  /\ UNCHANGED services

\* pose.onResults: the latest results replace the previous ones.
OnResults ==
  /\ isCameraReady
  /\ ~EffectsPending
  /\ \E results \in Results : lastPoseResults' = <<results>>
  /\ UNCHANGED <<session, isCameraReady, timerRef, timeouts, seen, history>>
  /\ UNCHANGED services

(***************************************************************************)
(* Handlers.                                                               *)
(***************************************************************************)
\* Mutant of nextRound: the previous result is not cleared.
nextRound_KeepResult(randomPose) ==
  /\ currentPose' = <<randomPose>>
  /\ timeLeft' = GAME_DURATION
  /\ gameState' = PLAYING
  /\ lastResult' = lastResult

\* nextRound, with the pose the random draw gave.
nextRound(randomPose) ==
  /\ currentPose' = <<randomPose>>
  /\ timeLeft' = GAME_DURATION
  /\ gameState' = PLAYING
  /\ lastResult' = <<>>

\* Mutant of startGame: lives are not reset.
startGame_KeepLives(randomPose) ==
  /\ score' = 0
  /\ lives' = lives
  /\ nextRound(randomPose)

startGame(randomPose) ==
  /\ score' = 0
  /\ lives' = START_LIVES
  /\ nextRound(randomPose)

\* lastPoseResults.current?.poseLandmarks
Landmarks == IF lastPoseResults = <<>> THEN <<>> ELSE lastPoseResults[1].poseLandmarks

\* handleJudging up to the setTimeout: pose is the currentPose of the render
\* whose handleJudging is called.
handleJudging(pose) ==
  /\ gameState' = JUDGING
  /\ timeouts' = Append(timeouts, [landmarks |-> Landmarks, pose |-> pose])

\* Mutant of JudgingCallback: a match costs a life as well.
JudgingCallback_AlwaysLoseLife(t) ==
  IF t.pose = <<>> \/ Throws(t.landmarks, t.pose[1])
  THEN /\ fault' = (fault \/ t.pose # <<>>)
       /\ UNCHANGED <<lastResult, score, lives, gameState, applied, missStreak>>
  ELSE LET result == evaluatePoseOffline(t.landmarks, t.pose[1])
       IN  /\ lastResult' = <<result>>
           /\ score' = score + result.score
           /\ lives' = lives - 1
           /\ gameState' = RESULT
           /\ applied' = applied + 1
           /\ missStreak' = IF result.matched THEN 0 ELSE missStreak + 1
           /\ fault' = fault

\* Mutant of JudgingCallback: the landmarks are read when the timeout
\* fires, not when judging is triggered.
JudgingCallback_LateSample(t) ==
  IF t.pose = <<>> \/ Throws(Landmarks, t.pose[1])
  THEN /\ fault' = (fault \/ t.pose # <<>>)
       /\ UNCHANGED <<lastResult, score, lives, gameState, applied, missStreak>>
  ELSE LET result == evaluatePoseOffline(Landmarks, t.pose[1])
       IN  /\ lastResult' = <<result>>
           /\ IF result.matched
              THEN score' = score + result.score /\ lives' = lives
              ELSE lives' = lives - 1 /\ score' = score
           /\ gameState' = RESULT
           /\ applied' = applied + 1
           /\ missStreak' = IF result.matched THEN 0 ELSE missStreak + 1
           /\ fault' = fault

\* Mutant of JudgingCallback: after a miss the phase stays JUDGING.
JudgingCallback_MissKeepsPhase(t) ==
  IF t.pose = <<>> \/ Throws(t.landmarks, t.pose[1])
  THEN /\ fault' = (fault \/ t.pose # <<>>)
       /\ UNCHANGED <<lastResult, score, lives, gameState, applied, missStreak>>
  ELSE LET result == evaluatePoseOffline(t.landmarks, t.pose[1])
       IN  /\ lastResult' = <<result>>
           /\ IF result.matched
              THEN score' = score + result.score /\ lives' = lives /\ gameState' = RESULT
              ELSE lives' = lives - 1 /\ score' = score /\ gameState' = gameState
           /\ applied' = applied + 1
           /\ missStreak' = IF result.matched THEN 0 ELSE missStreak + 1
           /\ fault' = fault

\* The callback handleJudging hands to setTimeout.  A TypeError thrown by
\* evaluatePoseOffline leaves it before any state is set.
JudgingCallback(t) ==
  IF t.pose = <<>> \/ Throws(t.landmarks, t.pose[1])
  THEN /\ fault' = (fault \/ t.pose # <<>>)
       /\ UNCHANGED <<lastResult, score, lives, gameState, applied, missStreak>>
  ELSE LET result == evaluatePoseOffline(t.landmarks, t.pose[1])
       IN  /\ lastResult' = <<result>>
           /\ IF result.matched
              THEN score' = score + result.score /\ lives' = lives
              ELSE lives' = lives - 1 /\ score' = score
           /\ gameState' = RESULT
           /\ applied' = applied + 1
           /\ missStreak' = IF result.matched THEN 0 ELSE missStreak + 1
           /\ fault' = fault

\* Mutant of IntervalCallback: expiry is tested with prev < 100.
IntervalCallback_Late ==
  IF timeLeft < TICK
  THEN /\ timerRef' = <<>>
       /\ handleJudging(timerRef[1].pose)
       /\ timeLeft' = 0
       /\ expiries' = expiries + 1
       /\ judgeCalls' = judgeCalls + 1
  ELSE /\ timeLeft' = timeLeft - TICK
       /\ UNCHANGED <<timerRef, gameState, timeouts, expiries, judgeCalls>>

\* Mutant of IntervalCallback: the interval is not cleared on expiry.
IntervalCallback_NoClear ==
  IF timeLeft <= TICK
  THEN /\ timerRef' = timerRef
       /\ handleJudging(timerRef[1].pose)
       /\ timeLeft' = 0
       /\ expiries' = expiries + 1
       /\ judgeCalls' = judgeCalls + 1
  ELSE /\ timeLeft' = timeLeft - TICK
       /\ UNCHANGED <<timerRef, gameState, timeouts, expiries, judgeCalls>>

\* Mutant of IntervalCallback: on expiry the updater returns prev, not 0.
IntervalCallback_KeepPrev ==
  IF timeLeft <= TICK
  THEN /\ timerRef' = <<>>
       /\ handleJudging(timerRef[1].pose)
       /\ timeLeft' = timeLeft
       /\ expiries' = expiries + 1
       /\ judgeCalls' = judgeCalls + 1
  ELSE /\ timeLeft' = timeLeft - TICK
       /\ UNCHANGED <<timerRef, gameState, timeouts, expiries, judgeCalls>>

\* The interval's callback: setTimeLeft(prev => ...).
IntervalCallback ==
  IF timeLeft <= TICK
  THEN /\ timerRef' = <<>>
       /\ handleJudging(timerRef[1].pose)
       /\ timeLeft' = 0
       /\ expiries' = expiries + 1
       /\ judgeCalls' = judgeCalls + 1
  ELSE /\ timeLeft' = timeLeft - TICK
       /\ UNCHANGED <<timerRef, gameState, timeouts, expiries, judgeCalls>>

(***************************************************************************)
(* Events.                                                                 *)
(***************************************************************************)
\* The start button, shown in START and enabled once the camera is ready.
ClickStart ==
  /\ gameState = START
  /\ isCameraReady
  /\ ~EffectsPending
  /\ rounds < MaxRounds
  /\ \E randomPose \in POSES : startGame(randomPose)
  /\ rounds' = rounds + 1
  /\ expiries' = 0 /\ judgeCalls' = 0 /\ applied' = 0 /\ missStreak' = 0
  /\ UNCHANGED <<isCameraReady, lastPoseResults, timerRef, timeouts, seen, forced>>
  /\ UNCHANGED services

\* The restart button, shown in GAMEOVER.
ClickRestart ==
  /\ gameState = GAMEOVER
  /\ ~EffectsPending
  /\ rounds < MaxRounds
  /\ \E randomPose \in POSES : startGame(randomPose)
  /\ rounds' = rounds + 1
  /\ expiries' = 0 /\ judgeCalls' = 0 /\ applied' = 0 /\ missStreak' = 0
  /\ UNCHANGED <<isCameraReady, lastPoseResults, timerRef, timeouts, seen, forced>>
  /\ UNCHANGED services

\* The continue button, shown in RESULT.
ClickContinue ==
  /\ gameState = RESULT
  /\ ~EffectsPending
  /\ rounds < MaxRounds
  /\ \E randomPose \in POSES : nextRound(randomPose)
  /\ rounds' = rounds + 1
  /\ expiries' = 0 /\ judgeCalls' = 0 /\ applied' = 0
  /\ UNCHANGED <<score, lives, isCameraReady, lastPoseResults, timerRef, timeouts, seen,
                 missStreak, forced>>
  /\ UNCHANGED services

\* One firing of the interval.
Tick ==
  /\ timerRef # <<>>
  /\ ~EffectsPending
  /\ IntervalCallback
  /\ UNCHANGED <<currentPose, score, lastResult, lives, isCameraReady, lastPoseResults,
                 seen, rounds, applied, missStreak, forced>>
  /\ UNCHANGED services

\* The oldest pending timeout of handleJudging fires.
JudgingTimeout ==
  /\ timeouts # <<>>
  /\ ~EffectsPending
  /\ JudgingCallback(Head(timeouts))
  /\ timeouts' = Tail(timeouts)
  /\ UNCHANGED <<currentPose, timeLeft, isCameraReady, lastPoseResults, timerRef, seen,
                 rounds, expiries, judgeCalls, forced>>
  /\ UNCHANGED response

\* handleJudging called again in a round whose clock has already raised
\* expiry (a forced or stray judging trigger before the next round starts),
\* with the handleJudging of the committed render.
ForceJudge ==
  /\ ~EffectsPending
  /\ expiries >= 1
  /\ forced < MaxForced
  /\ handleJudging(currentPose)
  /\ forced' = forced + 1
  /\ judgeCalls' = judgeCalls + 1
  /\ UNCHANGED <<currentPose, score, timeLeft, lastResult, lives, isCameraReady,
                 lastPoseResults, timerRef, seen, rounds, expiries, applied, missStreak>>
  /\ UNCHANGED services

(***************************************************************************)
(* Specifications.                                                         *)
(***************************************************************************)
\* The App as it renders: every handler is reached through its button or
\* timer only.
Next ==
  \/ FlushEffects
  \/ OnLoadedMetadata
  \/ OnResults
  \/ ClickStart
  \/ ClickRestart
  \/ ClickContinue
  \/ Tick
  \/ JudgingTimeout

Spec == Init /\ [][Next]_vars

\* One round with duplicate judging triggers: the session is started, the
\* round is played, and handleJudging is also called after the clock's
\* expiry.
NextForce ==
  \/ FlushEffects
  \/ OnLoadedMetadata
  \/ OnResults
  \/ ClickStart
  \/ Tick
  \/ JudgingTimeout
  \/ ForceJudge

SpecForce == Init /\ [][NextForce]_vars

(***************************************************************************)
(* Claims.                                                                 *)
(***************************************************************************)

\* C1: within one round, when the clock's expiry is followed by a second
\* call of handleJudging before the next round starts, the round's outcome
\* is applied to score/lives once, never twice.
C1_OutcomeAppliedOnce == (expiries >= 1 /\ judgeCalls >= 2) => applied <= 1

\* C2: after three non-matching rounds in a row from lives = 3 the session
\* is in GameOver or its next step takes it there, and the only round that
\* can follow is the one a restart begins.
C2_ThreeMissesEndGame ==
  [][missStreak = 3 =>
       /\ lives = 0
       /\ gameState = GAMEOVER \/ gameState' = GAMEOVER
       /\ gameState' = PLAYING =>
            gameState = GAMEOVER /\ lives' = START_LIVES /\ score' = 0]_vars

C2_Witness == missStreak = 3 /\ gameState = GAMEOVER /\ ~EffectsPending

\* C3: in every reachable state 0 <= lives <= 3.
C3_LivesInRange == 0 <= lives /\ lives <= START_LIVES

C3_Witness == lives = 0 /\ gameState = GAMEOVER /\ rounds = 3

\* C4: whenever the phase is Judging the completion that moves the session
\* to Result is still pending, whatever the landmark sample and the pose:
\* the session never sits in Judging with nothing left to end it.
C4_JudgingCompletes == gameState = JUDGING => timeouts # <<>>

\* C5: the step that completes judging with result r adds r.score to the
\* score and leaves lives alone when r.matched, and takes one life and
\* leaves the score alone when not.
C5_OutcomeApplied ==
  [][gameState = JUDGING /\ gameState' = RESULT =>
       /\ lastResult' # <<>>
       /\ lastResult'[1].matched => score' = score + lastResult'[1].score /\ lives' = lives
       /\ ~lastResult'[1].matched => lives' = lives - 1 /\ score' = score]_vars

C5_Witness ==
  /\ gameState = RESULT
  /\ lastResult # <<>>
  /\ lastResult[1].matched
  /\ score = 185
  /\ lives = 2

\* C6: in each round the clock raises expiry once: the tick taken with
\* timeLeft <= 100 raises it and sets timeLeft to 0, no other tick does, and
\* after it timeLeft is not ticked again until the next round starts.
C6_ExpiryOncePerRound ==
  [][/\ expiries' <= 1
     /\ expiries' = expiries + 1 => timeLeft <= TICK /\ timeLeft' = 0
     /\ (timeLeft' # timeLeft /\ rounds' = rounds /\ timeLeft <= TICK) =>
          expiries' = expiries + 1
     /\ expiries = 1 => timeLeft' = timeLeft \/ rounds' = rounds + 1
     /\ gameState' = PLAYING => expiries' = 0
     /\ gameState' \in {JUDGING, RESULT} => expiries' = 1]_vars

C6_Witness == expiries = 1 /\ gameState = JUDGING /\ timeLeft = 0 /\ timerRef = <<>>

\* C7: a tick decrements timeLeft or raises expiry only while the phase is
\* Playing, and once the phase is not Playing no interval is running.
C7_TicksOnlyWhilePlaying ==
  [][/\ (timeLeft' < timeLeft \/ expiries' > expiries) => gameState = PLAYING
     /\ gameState' # PLAYING => timerRef' = <<>>]_vars

C7_Witness == gameState = RESULT /\ timerRef = <<>> /\ timeLeft = 0 /\ rounds = 2

\* C8: continue taken in Result with lives > 0 sets the phase to Playing,
\* timeLeft to GAME_DURATION and lastResult to null.
C8_ContinueResetsRound ==
  [][(gameState = RESULT /\ lives > 0 /\ rounds' = rounds + 1) =>
       gameState' = PLAYING /\ timeLeft' = GAME_DURATION /\ lastResult' = <<>>]_vars

C8_Witness ==
  /\ gameState = PLAYING
  /\ rounds = 2
  /\ lives = 2
  /\ timeLeft = GAME_DURATION
  /\ lastResult = <<>>
  /\ EffectsPending

\* C9 as stated: the only phase change from GameOver is the restart, which
\* puts the session in Start with lives = 3 and score = 0.
C9_RestartToStart ==
  [][gameState = GAMEOVER /\ gameState' # GAMEOVER =>
       gameState' = START /\ lives' = START_LIVES /\ score' = 0]_vars

\* C9 amended: the only phase change from GameOver is the restart, which
\* puts the session in Playing (a new round) with lives = 3 and score = 0;
\* Start is never entered from another phase.
C9_RestartToPlaying ==
  [][/\ gameState = GAMEOVER /\ gameState' # GAMEOVER =>
          /\ rounds' = rounds + 1
          /\ gameState' = PLAYING
          /\ lives' = START_LIVES
          /\ score' = 0
          /\ timeLeft' = GAME_DURATION
     /\ gameState # START => gameState' # START]_vars

C9_Witness ==
  /\ gameState = PLAYING
  /\ rounds = 4
  /\ lives = START_LIVES
  /\ score = 0
  /\ seen.gameState = GAMEOVER

\* C10: while lives <= 0 and the phase is neither GameOver nor Start, a
\* step changes the phase to GameOver or not at all, and changes none of
\* score, lives and timeLeft, raises no expiry and applies no outcome.
C10_GuardFirst ==
  [][(lives <= 0 /\ gameState # GAMEOVER /\ gameState # START) =>
       /\ gameState' = gameState \/ gameState' = GAMEOVER
       /\ score' = score
       /\ lives' = lives
       /\ timeLeft' = timeLeft
       /\ expiries' = expiries
       /\ applied' = applied
       /\ rounds' = rounds]_vars

C10_Witness == lives = 0 /\ gameState = RESULT /\ score = 95

\* C11 as stated: the session leaves Result only by a click on continue
\* (the one step taken in Result that starts a round).
C11_LeavesResultByContinueOnly ==
  [][gameState = RESULT /\ gameState' # RESULT => rounds' = rounds + 1]_vars

\* C11 amended: the session leaves Result by a click on continue when
\* lives > 0, and to Playing; with lives = 0 the lives guard takes it to
\* GameOver with no click, and pose, clock and round count stay as they are.
C11_LeavesResult ==
  [][gameState = RESULT /\ gameState' # RESULT =>
       \/ /\ lives > 0
          /\ rounds' = rounds + 1
          /\ gameState' = PLAYING
       \/ /\ lives = 0
          /\ gameState' = GAMEOVER
          /\ UNCHANGED <<currentPose, timeLeft, rounds, score, lives>>]_vars

C11_Witness ==
  /\ gameState = GAMEOVER
  /\ seen.gameState = RESULT
  /\ lives = 0
  /\ timeLeft = 0
  /\ rounds = 3

(***************************************************************************)
(* Handlers called in a phase whose screen does not offer them.  The       *)
(* handlers themselves test no phase.                                      *)
(***************************************************************************)
\* Handler calls made out of phase, in one behaviour.
MaxStray == 1

\* startGame (the start and the restart action) called outside START and
\* GAMEOVER.
StrayStartGame ==
  /\ gameState \in {PLAYING, JUDGING, RESULT}
  /\ ~EffectsPending
  /\ forced < MaxStray
  /\ rounds < MaxRounds
  /\ \E randomPose \in POSES : startGame(randomPose)
  /\ forced' = forced + 1
  /\ rounds' = rounds + 1
  /\ expiries' = 0 /\ judgeCalls' = 0 /\ applied' = 0 /\ missStreak' = 0
  /\ UNCHANGED <<isCameraReady, lastPoseResults, timerRef, timeouts, seen>>
  /\ UNCHANGED services

\* nextRound (the continue action) called outside RESULT, once a game has
\* been started.
StrayNextRound ==
  /\ gameState \in {PLAYING, JUDGING, GAMEOVER}
  /\ ~EffectsPending
  /\ forced < MaxStray
  /\ rounds < MaxRounds
  /\ \E randomPose \in POSES : nextRound(randomPose)
  /\ forced' = forced + 1
  /\ rounds' = rounds + 1
  /\ expiries' = 0 /\ judgeCalls' = 0 /\ applied' = 0
  /\ UNCHANGED <<score, lives, isCameraReady, lastPoseResults, timerRef, timeouts, seen,
                 missStreak>>
  /\ UNCHANGED services

\* handleJudging (the forceJudge action) called outside PLAYING.
StrayJudging ==
  /\ gameState # PLAYING
  /\ ~EffectsPending
  /\ forced < MaxStray
  /\ handleJudging(currentPose)
  /\ forced' = forced + 1
  /\ judgeCalls' = judgeCalls + 1
  /\ UNCHANGED <<currentPose, score, timeLeft, lastResult, lives, isCameraReady,
                 lastPoseResults, timerRef, seen, rounds, expiries, applied, missStreak>>
  /\ UNCHANGED services

\* The first round of a session, with handlers also called out of phase.
NextStray ==
  \/ FlushEffects
  \/ OnLoadedMetadata
  \/ OnResults
  \/ ClickStart
  \/ Tick
  \/ JudgingTimeout
  \/ StrayStartGame
  \/ StrayNextRound
  \/ StrayJudging

SpecStray == Init /\ [][NextStray]_vars

\* C12: an action fired in a phase where it is not valid (start or restart
\* outside Start and GameOver, continue outside Result, forceJudge outside
\* Playing) leaves phase, pose, score, timeLeft, lastResult and lives as
\* they were.
C12_InvalidPhaseNoOp ==
  [][forced' = forced + 1 =>
       UNCHANGED <<gameState, currentPose, score, timeLeft, lastResult, lives>>]_vars

\* C13: the result of a round is the matcher's result for the sample that
\* was the latest when judging was triggered and for the round's pose: the
\* trigger records that sample and pose, deliveries during the delay leave
\* the record, score and lives alone, and the completion stores the result
\* computed from the record.
C13_SampleAtTrigger ==
  [][/\ expiries' = expiries + 1 =>
          /\ timeouts' # <<>>
          /\ Head(timeouts').landmarks = Landmarks
          /\ Head(timeouts').pose = currentPose
     /\ (gameState = JUDGING /\ lastPoseResults' # lastPoseResults) =>
          UNCHANGED <<timeouts, score, lives, lastResult, gameState>>
     /\ (gameState = JUDGING /\ gameState' = RESULT) =>
          /\ lastResult' = <<evaluatePoseOffline(Head(timeouts).landmarks, currentPose[1])>>
          /\ score' = score + lastResult'[1].score
          /\ lives' = IF lastResult'[1].matched THEN lives ELSE lives - 1]_vars

C13_Witness ==
  /\ gameState = JUDGING
  /\ timeouts # <<>>
  /\ Head(timeouts).landmarks = <<TPoseSample>>
  /\ Landmarks = <<>>
  /\ currentPose = <<"t-pose">>

(***************************************************************************)
(* The pose matcher on its own: evaluatePoseOffline called once on a       *)
(* sample and a target pose drawn from the sets below.                     *)
(***************************************************************************)
\* The catalog's ids and one id no case of the switch names.
MatcherPoses == POSES \cup {"unknown-pose"}

\* Wrist positions: on, next to and away from every threshold of the six
\* rules, for shoulders at y = 50, hips at y = 90 and the nose at (50, 20).
WristX == {10, 40, 50, 90}

WristY == {10, 20, 30, 35, 36, 50, 64, 65, 70, 80, 90}

\* A complete landmark list with the given wrists.
BodyWith(lw, rw) ==
  [i \in Required |->
     CASE i = NOSE -> Pt(50, 20)
       [] i = L_SHOULDER -> Pt(35, 50)
       [] i = R_SHOULDER -> Pt(65, 50)
       [] i = L_ELBOW -> Pt(28, 60)
       [] i = R_ELBOW -> Pt(72, 60)
       [] i = L_WRIST -> lw
       [] i = R_WRIST -> rw
       [] i = L_HIP -> Pt(40, 90)
       [] i = R_HIP -> Pt(60, 90)]

\* TPoseSample with the left wrist 0.3 below its shoulder.
TPoseOffSample == [TPoseSample EXCEPT ![L_WRIST] = Pt(10, 82)]

\* TPoseSample without the nose.
NoNoseSample == [i \in Required \ {NOSE} |-> TPoseSample[i]]

\* The landmarks argument: undefined, an empty list, partial lists and
\* complete lists.
MatcherLandmarks ==
  {<<>>, <<EmptyList>>, <<PartialSample>>, <<NoNoseSample>>, <<TPoseSample>>,
   <<TPoseOffSample>>, <<VictorySample>>}
    \cup {<<BodyWith(Pt(lx, ly), Pt(rx, ry))>> : lx \in WristX, ly \in WristY,
                                                 rx \in WristX, ry \in WristY}

InitMatcher ==
  /\ gameState = JUDGING
  /\ currentPose \in {<<id>> : id \in MatcherPoses}
  /\ score = 0
  /\ timeLeft = 0
  /\ lastResult = <<>>
  /\ lives = START_LIVES
  /\ isCameraReady = TRUE
  /\ lastPoseResults \in {<<[poseLandmarks |-> l]>> : l \in MatcherLandmarks}
  /\ timerRef = <<>>
  /\ timeouts = <<>>
  /\ seen = [gameState |-> JUDGING, currentPose |-> currentPose, lives |-> START_LIVES]
  /\ rounds = 1
  /\ expiries = 1
  /\ judgeCalls = 1
  /\ applied = 0
  /\ missStreak = 0
  /\ forced = 0
  /\ fault = FALSE
  /\ response = [rejects |-> FALSE, text |-> <<>>]

\* evaluatePoseOffline(landmarks, currentPose): the result is kept in
\* lastResult, a TypeError in fault.
CallEvaluatePoseOffline ==
  /\ lastResult = <<>>
  /\ ~fault
  /\ IF Throws(Landmarks, currentPose[1])
     THEN fault' = TRUE /\ lastResult' = lastResult
     ELSE fault' = fault /\ lastResult' = <<evaluatePoseOffline(Landmarks, currentPose[1])>>
  /\ UNCHANGED <<gameState, currentPose, score, timeLeft, lives, isCameraReady,
                 lastPoseResults, timerRef, timeouts, seen, history, response>>

NextMatcher == CallEvaluatePoseOffline

SpecMatcher == InitMatcher /\ [][NextMatcher]_vars

\* The sample is a non-empty list holding every required index.
CompleteSample == Landmarks # <<>> /\ Required \subseteq DOMAIN Landmarks[1]

\* The sample is null, undefined or an empty list.
AbsentSample == Landmarks = <<>> \/ Landmarks = <<EmptyList>>

\* The sample is a non-empty list that lacks a required index.
PartialGiven == ~AbsentSample /\ ~CompleteSample


\* C14: whatever the sample and the target pose (the six known ids and an
\* unknown one), a result that is not matched has score 0, and a matched
\* result carries the fixed score of its pose (t-pose 95, victory-v 90,
\* hands-on-hips 85, hands-on-head 88, right-arm-up 92, arms-crossed 80);
\* none of the unmatched constants of the switch is ever returned.
C14_ScoreNormalised ==
  lastResult # <<>> =>
    LET r == lastResult[1]
        id == currentPose[1]
    IN  /\ ~r.matched => r.score = 0
        /\ r.matched =>
             \/ id = "t-pose" /\ r.score = 95
             \/ id = "victory-v" /\ r.score = 90
             \/ id = "hands-on-hips" /\ r.score = 85
             \/ id = "hands-on-head" /\ r.score = 88
             \/ id = "right-arm-up" /\ r.score = 92
             \/ id = "arms-crossed" /\ r.score = 80

\* A complete sample judged against hands-on-hips and not matched.
C14_Witness ==
  /\ lastResult # <<>>
  /\ currentPose = <<"hands-on-hips">>
  /\ CompleteSample
  /\ ~lastResult[1].matched
  /\ lastResult[1].score = 0
  /\ lastResult[1].feedback = "Put your hands on your hips."


\* C15 as stated: an absent sample (null, undefined or an empty list) always
\* gives exactly {matched: false, score: 0, feedback: "no body detected"}.
C15_AbsentExactResult ==
  AbsentSample =>
    /\ ~fault
    /\ lastResult # <<>> =>
         lastResult[1] = [matched |-> FALSE, score |-> 0, feedback |-> "no body detected"]

\* C15 as the code has it: an absent sample always gives matched false,
\* score 0 and the feedback "No body detected. Stand back!", for every
\* target pose and without a fault.
C15_AbsentNoBody ==
  AbsentSample =>
    /\ ~fault
    /\ lastResult # <<>> =>
         lastResult[1] = [matched |-> FALSE, score |-> 0,
                          feedback |-> "No body detected. Stand back!"]

\* An empty list has been evaluated.
C15_Witness ==
  /\ Landmarks = <<EmptyList>>
  /\ lastResult # <<>>
  /\ lastResult[1].score = 0

\* C16 as stated: a partial sample (a non-empty list that lacks a required
\* landmark) is treated as absent: the call returns the no-body result and
\* does not fault.
C16_PartialIsAbsent ==
  PartialGiven =>
    /\ ~fault
    /\ lastResult # <<>> =>
         /\ ~lastResult[1].matched
         /\ lastResult[1].score = 0
         /\ lastResult[1].feedback = "No body detected. Stand back!"

\* C17: an unknown pose id with a complete sample gives
\* {matched: false, score: 0, feedback: "Try harder!"} and never a fault.
C17_UnknownPose ==
  (currentPose[1] \notin POSES /\ CompleteSample) =>
    /\ ~fault
    /\ lastResult # <<>> =>
         lastResult[1] = [matched |-> FALSE, score |-> 0, feedback |-> "Try harder!"]

\* A complete sample has been evaluated against the unknown id.
C17_Witness ==
  /\ currentPose = <<"unknown-pose">>
  /\ Landmarks = <<TPoseSample>>
  /\ lastResult # <<>>
  /\ lastResult[1].feedback = "Try harder!"


\* C18: for target t-pose and every complete sample, matched is true exactly
\* when both wrists are within 0.15 of their shoulder's height and the wrists
\* are more than 0.4 apart horizontally.  Wrists 0.02 off their shoulders and
\* 0.8 apart give {matched: true, score: 95}; the same sample with the left
\* wrist 0.3 off gives {matched: false, score: 0}.
C18_TPoseRule ==
  (currentPose = <<"t-pose">> /\ CompleteSample /\ lastResult # <<>>) =>
    LET lm == Landmarks[1]
        r == lastResult[1]
    IN  /\ r.matched <=>
             /\ Abs(lm[L_WRIST].y - lm[L_SHOULDER].y) < 15
             /\ Abs(lm[R_WRIST].y - lm[R_SHOULDER].y) < 15
             /\ Abs(lm[L_WRIST].x - lm[R_WRIST].x) > 40
        /\ lm = TPoseSample => r.matched /\ r.score = 95
        /\ lm = TPoseOffSample => ~r.matched /\ r.score = 0

\* A t-pose judged with the left wrist exactly 0.15 above its shoulder, the
\* right wrist level and the wrists 0.8 apart: not matched.
C18_Witness ==
  /\ currentPose = <<"t-pose">>
  /\ Landmarks = <<BodyWith(Pt(10, 35), Pt(90, 50))>>
  /\ lastResult # <<>>
  /\ ~lastResult[1].matched

\* C19 as stated: for target right-arm-up and every complete sample, matched
\* is true exactly when rightWrist.y <= rightShoulder.y - 0.3 and
\* leftWrist.y >= leftShoulder.y, equality included.
C19_RightArmUpInclusive ==
  (currentPose = <<"right-arm-up">> /\ CompleteSample /\ lastResult # <<>>) =>
    LET lm == Landmarks[1]
    IN  lastResult[1].matched <=>
          /\ lm[R_WRIST].y <= lm[R_SHOULDER].y - 30
          /\ lm[L_WRIST].y >= lm[L_SHOULDER].y

\* C19 as the code has it: matched is true exactly when
\* rightWrist.y < rightShoulder.y - 0.3 and leftWrist.y > leftShoulder.y;
\* a wrist exactly on either boundary is not matched.
C19_RightArmUpStrict ==
  (currentPose = <<"right-arm-up">> /\ CompleteSample /\ lastResult # <<>>) =>
    LET lm == Landmarks[1]
    IN  lastResult[1].matched <=>
          /\ lm[R_WRIST].y < lm[R_SHOULDER].y - 30
          /\ lm[L_WRIST].y > lm[L_SHOULDER].y

\* Right-arm-up judged with the right wrist exactly 0.3 above its shoulder
\* and the left wrist level with its shoulder: not matched.
C19_Witness ==
  /\ currentPose = <<"right-arm-up">>
  /\ Landmarks = <<BodyWith(Pt(10, 50), Pt(90, 20))>>
  /\ lastResult # <<>>
  /\ ~lastResult[1].matched


(***************************************************************************)
(* The vision-model judge: evaluatePose called once, the outcome of        *)
(* ai.models.generateContent drawn from the set below.                     *)
(***************************************************************************)
\* A parsed JSON object as its three fields, <<>> for a missing or null one.
JsonObject(m, s, f) == [matched |-> m, score |-> s, feedback |-> f]

\* JSON.parse on the response texts considered: ok is FALSE for a
\* SyntaxError; type tells an object from null and from a number, whose
\* properties all read as undefined.
JSON_parse(text) ==
  CASE text = "{\"matched\":true,\"score\":90,\"feedback\":\"Great pose!\"}" ->
         [ok |-> TRUE, type |-> "object",
          value |-> JsonObject(<<TRUE>>, <<90>>, <<"Great pose!">>)]
    [] text = "{\"matched\":false,\"score\":40,\"feedback\":\"Arms higher\"}" ->
         [ok |-> TRUE, type |-> "object",
          value |-> JsonObject(<<FALSE>>, <<40>>, <<"Arms higher">>)]
    [] text = "{\"matched\":true}" ->
         [ok |-> TRUE, type |-> "object", value |-> JsonObject(<<TRUE>>, <<>>, <<>>)]
    [] text = "{\"score\":55}" ->
         [ok |-> TRUE, type |-> "object", value |-> JsonObject(<<>>, <<55>>, <<>>)]
    [] text = "{\"matched\":false,\"score\":0,\"feedback\":null}" ->
         [ok |-> TRUE, type |-> "object", value |-> JsonObject(<<FALSE>>, <<0>>, <<>>)]
    [] text = "{}" ->
         [ok |-> TRUE, type |-> "object", value |-> JsonObject(<<>>, <<>>, <<>>)]
    [] text = "7" ->
         [ok |-> TRUE, type |-> "number", value |-> JsonObject(<<>>, <<>>, <<>>)]
    [] text = "null" ->
         [ok |-> TRUE, type |-> "null", value |-> JsonObject(<<>>, <<>>, <<>>)]
    [] OTHER ->
         [ok |-> FALSE, type |-> "SyntaxError", value |-> JsonObject(<<>>, <<>>, <<>>)]

\* Response texts that are not JSON.
Unparsable ==
  {"{\"matched\":tru", "Sorry, I cannot judge this image.", "Here is my verdict: {\"matched\":true}"}

\* response.text: undefined, empty, JSON or not JSON.
ResponseTexts ==
  {<<>>, <<"">>,
   <<"{\"matched\":true,\"score\":90,\"feedback\":\"Great pose!\"}">>,
   <<"{\"matched\":false,\"score\":40,\"feedback\":\"Arms higher\"}">>,
   <<"{\"matched\":true}">>, <<"{\"score\":55}">>,
   <<"{\"matched\":false,\"score\":0,\"feedback\":null}">>,
   <<"{}">>, <<"7">>, <<"null">>}
    \cup {<<t>> : t \in Unparsable}

\* What awaiting generateContent gives: a throw or a rejection, or a
\* response with this text.
Responses == [rejects : BOOLEAN, text : ResponseTexts]

\* a ?? b
Coalesce(a, b) == IF a = <<>> THEN b ELSE a[1]

\* The try block: threw tells whether control passes to the catch block,
\* value is the MatchResult returned otherwise.
TryBlock(resp) ==
  LET text == IF resp.text = <<>> \/ resp.text[1] = "" THEN "{}" ELSE resp.text[1]
      result == JSON_parse(text)
  IN  [threw |-> resp.rejects \/ ~result.ok \/ result.type = "null",
       value |-> [matched |-> Coalesce(result.value.matched, FALSE),
                  score |-> Coalesce(result.value.score, 0),
                  feedback |-> Coalesce(result.value.feedback, "Keep trying!")]]

\* Variant: no catch block, an exception of the try block rejects the promise.
evaluatePose_NoCatch(resp) ==
  LET try == TryBlock(resp)
  IN  [rejected |-> try.threw, value |-> try.value]

\* The promise returned by evaluatePose: rejected or fulfilled with value.
evaluatePose(resp) ==
  LET try == TryBlock(resp)
  IN  IF try.threw
      THEN [rejected |-> FALSE,
            value |-> [matched |-> FALSE, score |-> 0, feedback |-> "Error evaluating pose."]]
      ELSE [rejected |-> FALSE, value |-> try.value]

InitGemini ==
  /\ gameState = JUDGING
  /\ currentPose \in {<<id>> : id \in MatcherPoses}
  /\ score = 0
  /\ timeLeft = 0
  /\ lastResult = <<>>
  /\ lives = START_LIVES
  /\ isCameraReady = TRUE
  /\ lastPoseResults = <<>>
  /\ timerRef = <<>>
  /\ timeouts = <<>>
  /\ seen = [gameState |-> JUDGING, currentPose |-> currentPose, lives |-> START_LIVES]
  /\ rounds = 1
  /\ expiries = 1
  /\ judgeCalls = 1
  /\ applied = 0
  /\ missStreak = 0
  /\ forced = 0
  /\ fault = FALSE
  /\ response \in Responses

\* await evaluatePose(image, currentPose): the value is kept in lastResult,
\* a rejection in fault.
CallEvaluatePose ==
  /\ lastResult = <<>>
  /\ ~fault
  /\ LET promise == evaluatePose(response)
     IN  IF promise.rejected
         THEN fault' = TRUE /\ lastResult' = lastResult
         ELSE fault' = fault /\ lastResult' = <<promise.value>>
  /\ UNCHANGED <<gameState, currentPose, score, timeLeft, lives, isCameraReady,
                 lastPoseResults, timerRef, timeouts, seen, history, response>>

NextGemini == CallEvaluatePose

SpecGemini == InitGemini /\ [][NextGemini]_vars

\* C20: when the request fails (generateContent throws or its promise
\* rejects) or the response text cannot be parsed, evaluatePose returns
\* matched false, score 0 and the feedback "Error evaluating pose."; its
\* promise never rejects, whatever the response.
C20_FailureIsResult ==
  /\ ~fault
  /\ (lastResult # <<>> /\ (response.rejects \/ response.text \in {<<t>> : t \in Unparsable})) =>
       /\ ~lastResult[1].matched
       /\ lastResult[1].score = 0
       /\ lastResult[1].feedback = "Error evaluating pose."

\* A response that is not JSON has been turned into a result.
C20_Witness ==
  /\ ~response.rejects
  /\ response.text = <<"Sorry, I cannot judge this image.">>
  /\ lastResult # <<>>
  /\ lastResult[1].feedback = "Error evaluating pose."


\* C21: score and lives change only in the step that completes judging
\* (JUDGING to RESULT) and in the start or restart step (START or GAMEOVER
\* to PLAYING); clock ticks, landmark deliveries, continue and the lives
\* guard leave both unchanged, and while the phase stays or becomes GAMEOVER
\* the score keeps the value the last judging gave it.
C21_ScoreLivesFrame ==
  [][/\ (score' # score \/ lives' # lives) =>
          \/ gameState = JUDGING /\ gameState' = RESULT
          \/ gameState \in {START, GAMEOVER} /\ gameState' = PLAYING
     /\ gameState' = GAMEOVER => score' = score /\ lives' = lives
     /\ (timeLeft' < timeLeft \/ lastPoseResults' # lastPoseResults
           \/ (gameState = RESULT /\ gameState' = PLAYING)) =>
          score' = score /\ lives' = lives]_vars

\* The game is over with the score of an earlier matched round still shown.
C21_Witness ==
  /\ gameState = GAMEOVER
  /\ ~EffectsPending
  /\ score = 95
  /\ lives = 0
  /\ lastResult # <<>>
  /\ ~lastResult[1].matched


\* C22: in every reachable state GAMEOVER implies lives <= 0; the game is
\* never over while a life is left, since restart sets lives to 3 and
\* leaves GAMEOVER in the same step.
C22_GameOverNoLives == gameState = GAMEOVER => lives <= 0

\* The lives guard has just moved the session from RESULT to GAMEOVER.
C22_Witness == gameState = GAMEOVER /\ seen.gameState = RESULT /\ lives = 0

\* C23: in every reachable state timeLeft is between 0 and GAME_DURATION and
\* differs from GAME_DURATION by a multiple of 100, and it is 0 whenever the
\* phase is JUDGING.
C23_TimeLeftRange ==
  /\ timeLeft \in 0..GAME_DURATION
  /\ (GAME_DURATION - timeLeft) % 100 = 0
  /\ gameState = JUDGING => timeLeft = 0

\* The clock of the second round has expired and judging is pending.
C23_Witness ==
  /\ gameState = JUDGING
  /\ timeLeft = 0
  /\ rounds = 2
  /\ timeouts # <<>>

\* C24: in every reachable state PLAYING implies that lastResult is null and
\* RESULT implies that lastResult is present; the step from JUDGING to
\* RESULT stores the result computed for the current pose from the sample of
\* the round just judged, and it is kept while the phase stays RESULT.
C24_LastResultByPhase ==
  /\ [](/\ gameState = PLAYING => lastResult = <<>>
        /\ gameState = RESULT => lastResult # <<>>)
  /\ [][/\ (gameState = JUDGING /\ gameState' = RESULT) =>
             /\ currentPose # <<>>
             /\ lastResult' = <<evaluatePoseOffline(Head(timeouts).landmarks, currentPose[1])>>
        /\ (gameState = RESULT /\ gameState' = RESULT) =>
             UNCHANGED <<lastResult, currentPose>>]_vars

\* A victory-v round has been judged as matched and its result is shown.
C24_Witness ==
  /\ gameState = RESULT
  /\ currentPose = <<"victory-v">>
  /\ lastResult # <<>>
  /\ lastResult[1].feedback = "Victory attained!"

====
